---- MODULE Spec2Model ----
(***************************************************************************)
(* Model of data_object_generator/generate_data_object.py: a one-shot      *)
(* generator that reads a db_schema.xml, selects a table, derives an       *)
(* entity name and an attribute list and writes two PHP files.             *)
(*                                                                         *)
(* Python strings are sequences of one-character strings, so that split,   *)
(* upper, lower, capitalize, strip, isdigit and int are computed as the    *)
(* code computes them.  Python's None is the one-element sequence None,    *)
(* whose element is no character.  Rendered text is a sequence of          *)
(* fragments, one per line content, with the fragment NL for each newline  *)
(* character of the text.                                                  *)
(***************************************************************************)
EXTENDS Integers, Sequences, FiniteSets, TLC

VARIABLES
    pc,          \* position of main(): start, parse, select, derive, generate,
                 \* write_interface, write_class, done, exit, crashed, unit
    argv,        \* [vendor, module, entity, db_schema_exists]
    tables,      \* result of parse_magento_schema
    answer,      \* what input() returned (None before the prompt)
    index,       \* main's index (0-based, as in the code)
    entity,      \* main's entity
    attributes,  \* main's attributes: sequence of <<name, php type>>
    rendered,    \* generate_data_object's ctx texts
    fs,          \* the target directories and the two target files
    fs0,         \* history: fs at the start of the run or of the repeated call
    trace,       \* history: the externally visible steps taken, in order
    exitCode,    \* process exit status (-1 while running)
    error,       \* reported error outcome, or the uncaught exception
    runs,        \* completed calls of generate_data_object
    firstOut,    \* history: the two files after the first completed call
    uarg,        \* helper under call: its argument
    ufn,         \* helper under call: its name
    ures         \* helper under call: its result

vars == <<pc, argv, tables, answer, index, entity, attributes, rendered, fs,
          fs0, trace, exitCode, error, runs, firstOut, uarg, ufn, ures>>

mainVars == <<pc, argv, tables, answer, index, entity, attributes, rendered,
              fs, fs0, trace, exitCode, error, runs, firstOut>>

unitVars == <<uarg, ufn, ures>>

-----------------------------------------------------------------------------
(* Bounds *)

MaxTables == 2

MaxNameLen == 4

MaxRuns == 2

-----------------------------------------------------------------------------
(* Python str methods *)

None == <<"<None>">>

LowerCase == <<"a","b","c","d","e","f","g","h","i","j","k","l","m",
               "n","o","p","q","r","s","t","u","v","w","x","y","z">>

UpperCase == <<"A","B","C","D","E","F","G","H","I","J","K","L","M",
               "N","O","P","Q","R","S","T","U","V","W","X","Y","Z">>

upper_char(c) ==
    IF \E i \in 1..26 : LowerCase[i] = c
    THEN UpperCase[CHOOSE i \in 1..26 : LowerCase[i] = c]
    ELSE c

lower_char(c) ==
    IF \E i \in 1..26 : UpperCase[i] = c
    THEN LowerCase[CHOOSE i \in 1..26 : UpperCase[i] = c]
    ELSE c

str_upper(s) == [i \in 1..Len(s) |-> upper_char(s[i])]

str_lower(s) == [i \in 1..Len(s) |-> lower_char(s[i])]

str_capitalize(s) ==
    IF s = <<>> THEN <<>> ELSE <<upper_char(s[1])>> \o str_lower(Tail(s))

RECURSIVE str_split(_)
str_split(s) ==
    IF \E i \in 1..Len(s) : s[i] = "_"
    THEN LET i == CHOOSE j \in 1..Len(s) :
                      s[j] = "_" /\ \A k \in 1..(j-1) : s[k] # "_"
         IN  <<SubSeq(s, 1, i-1)>> \o str_split(SubSeq(s, i+1, Len(s)))
    ELSE <<s>>

RECURSIVE str_join(_)
str_join(words) ==
    IF words = <<>> THEN <<>> ELSE Head(words) \o str_join(Tail(words))

RECURSIVE str_strip(_)
str_strip(s) ==
    IF s # <<>> /\ s[1] = " " THEN str_strip(Tail(s))
    ELSE IF s # <<>> /\ s[Len(s)] = " " THEN str_strip(SubSeq(s, 1, Len(s)-1))
    ELSE s

AsciiDigits == <<"0","1","2","3","4","5","6","7","8","9">>

IsAsciiDigit(c) == \E i \in 1..10 : AsciiDigits[i] = c

\* str.isdigit also accepts digits outside 0-9, such as SUPERSCRIPT TWO
str_isdigit(s) == s # <<>> /\ \A i \in 1..Len(s) : IsAsciiDigit(s[i]) \/ s[i] = "sup2"

\* int(s) raises ValueError on a superscript digit
int_raises(s) == \E i \in 1..Len(s) : ~IsAsciiDigit(s[i])

RECURSIVE int_of(_)
int_of(s) ==
    IF s = <<>> THEN 0
    ELSE 10 * int_of(SubSeq(s, 1, Len(s)-1))
         + (CHOOSE i \in 1..10 : AsciiDigits[i] = s[Len(s)]) - 1

-----------------------------------------------------------------------------
(* Naming helpers *)

snake_to_camel(snake_str) ==
    LET components == str_split(snake_str)
    IN  components[1]
        \o str_join([i \in 1..(Len(components)-1) |-> str_capitalize(components[i+1])])

create_set_method_name(attr_name) ==
    <<"s","e","t">> \o str_capitalize(snake_to_camel(attr_name))

create_get_method_name(attr_name) ==
    <<"g","e","t">> \o str_capitalize(snake_to_camel(attr_name))

create_property_name(attr_name) == <<"_">> \o attr_name

\* mutant: every segment is kept, not the last two
convert_table_to_entity_all_segments(table_name) ==
    LET parts == str_split(table_name)
    IN  str_join([i \in 1..Len(parts) |-> str_capitalize(parts[i])])

convert_table_to_entity(table_name) ==
    LET parts == str_split(table_name)
        relevant == IF Len(parts) > 1
                    THEN SubSeq(parts, Len(parts)-1, Len(parts))
                    ELSE parts
    IN  str_join([i \in 1..Len(relevant) |-> str_capitalize(relevant[i])])

-----------------------------------------------------------------------------
(* Type mapper *)

mapping ==
    <<<<<<"i","n","t">>, "int">>,
      <<<<"s","m","a","l","l","i","n","t">>, "int">>,
      <<<<"b","i","g","i","n","t">>, "int">>,
      <<<<"d","e","c","i","m","a","l">>, "float">>,
      <<<<"f","l","o","a","t">>, "float">>,
      <<<<"d","o","u","b","l","e">>, "float">>,
      <<<<"b","o","o","l","e","a","n">>, "bool">>,
      <<<<"v","a","r","c","h","a","r">>, "string">>,
      <<<<"t","e","x","t">>, "string">>,
      <<<<"t","i","m","e","s","t","a","m","p">>, "\\DateTimeInterface">>,
      <<<<"d","a","t","e","t","i","m","e">>, "\\DateTimeInterface">>,
      <<<<"d","a","t","e">>, "\\DateTimeInterface">>>>

\* mapping.get(key, "string")
mapping_get(key) ==
    IF \E i \in 1..Len(mapping) : mapping[i][1] = key
    THEN mapping[CHOOSE i \in 1..Len(mapping) : mapping[i][1] = key][2]
    ELSE "string"

\* None has no method lower: db_type.lower() raises AttributeError
map_db_type_to_php_type(db_type) ==
    IF db_type = None THEN "<AttributeError>"
    ELSE mapping_get(str_lower(db_type))

-----------------------------------------------------------------------------
(* Rendered text *)

\* One line content: the literal text k of the line with its interpolated
\* values: t a PHP type, a, b and c Python strings.
Frag3(k, t, a, b, c) == [k |-> k, t |-> t, a |-> a, b |-> b, c |-> c]

Frag(k, t, a, b) == Frag3(k, t, a, b, <<>>)

Lit(k) == Frag(k, "", <<>>, <<>>)

\* the character "\n"
NL == Lit("\n")

\* "\n".join(parts), each part a text
RECURSIVE join_newline(_)
join_newline(parts) ==
    IF parts = <<>> THEN <<>>
    ELSE IF Len(parts) = 1 THEN parts[1]
    ELSE parts[1] \o <<NL>> \o join_newline(Tail(parts))

\* attr_name.upper() of generate_interface_constants
interface_constant_name(attr_name) == str_upper(attr_name)

generate_interface_constants(attrs) ==
    join_newline([i \in 1..Len(attrs) |->
        <<Frag("    public const {constant_name} = '{attr_name}';", "",
               interface_constant_name(attrs[i][1]), attrs[i][1])>>])

\* camel_attr_name[0].upper() + camel_attr_name[1:]
method_suffix(camel_attr_name) ==
    <<upper_char(camel_attr_name[1])>> \o Tail(camel_attr_name)

\* camel_attr_name[0] of an empty string raises IndexError
render_raises(attrs) ==
    \E i \in 1..Len(attrs) : snake_to_camel(attrs[i][1]) = <<>>

\* mutant: the "\n" is appended to the last getter too
getter_tail_always(i, n) == <<NL>>

\* the "\n" appended to every getter but the last
getter_tail(i, n) == IF i # n THEN <<NL>> ELSE <<>>

interface_setter(attr_name, attr_type) ==
    LET camel_attr_name == snake_to_camel(attr_name)
    IN  <<Lit("    /**"), NL,
          Frag("     * Setter for {attr_name}", "", attr_name, <<>>), NL,
          Lit("     *"), NL,
          Frag("     * @param {attr_type} ${camel_attr_name}", attr_type, camel_attr_name, <<>>), NL,
          Lit("     * @return $this"), NL,
          Lit("     */"), NL,
          Frag("    public function set{method_suffix}({attr_type} ${camel_attr_name}): self;",
               attr_type, method_suffix(camel_attr_name), camel_attr_name)>>

interface_getter(attr_name, attr_type, i, n) ==
    LET camel_attr_name == snake_to_camel(attr_name)
    IN  <<NL,
          Lit("    /**"), NL,
          Frag("     * Getter for {attr_name}", "", attr_name, <<>>), NL,
          Lit("     *"), NL,
          Frag("     * @return {attr_type}|null", attr_type, <<>>, <<>>), NL,
          Lit("     */"), NL,
          Frag("    public function get{method_suffix}(): {attr_type};",
               attr_type, method_suffix(camel_attr_name), <<>>)>>
        \o getter_tail(i, n)

generate_interface_methods(attrs) ==
    LET n == Len(attrs)
    IN  join_newline([j \in 1..(2*n) |->
            IF j % 2 = 1
            THEN interface_setter(attrs[(j+1) \div 2][1], attrs[(j+1) \div 2][2])
            ELSE interface_getter(attrs[j \div 2][1], attrs[j \div 2][2], j \div 2, n)])

\* mutant: the constant is taken from the camel-case name
class_constant_name_from_camel(attr_name) == str_upper(snake_to_camel(attr_name))

\* const = attr_name.upper() of generate_data_class_methods
class_constant_name(attr_name) == str_upper(attr_name)

class_setter(attr_name, attr_type) ==
    LET camel_attr_name == snake_to_camel(attr_name)
    IN  <<Lit("    /**"), NL,
          Frag("     * Setter for {attr_name}", "", attr_name, <<>>), NL,
          Lit("     *"), NL,
          Frag("     * @param {attr_type} ${camel_attr_name}", attr_type, camel_attr_name, <<>>), NL,
          Lit("     * @return $this"), NL,
          Lit("     */"), NL,
          Frag("    public function set{method_suffix}({attr_type} ${camel_attr_name}): self",
               attr_type, method_suffix(camel_attr_name), camel_attr_name), NL,
          Lit("    {"), NL,
          Frag("        return $this->setData(self::{const}, ${camel_attr_name});", "",
               class_constant_name(attr_name), camel_attr_name), NL,
          Lit("    }")>>

class_getter(attr_name, attr_type, i, n) ==
    LET camel_attr_name == snake_to_camel(attr_name)
    IN  <<NL,
          Lit("    /**"), NL,
          Frag("     * Getter for {attr_name}", "", attr_name, <<>>), NL,
          Lit("     *"), NL,
          Frag("     * @return {attr_type}|null", attr_type, <<>>, <<>>), NL,
          Lit("     */"), NL,
          Frag("    public function get{method_suffix}(): {attr_type}",
               attr_type, method_suffix(camel_attr_name), <<>>), NL,
          Lit("    {"), NL,
          Frag("        return $this->getData(self::{const});", "",
               class_constant_name(attr_name), <<>>), NL,
          Lit("    }")>>
        \o getter_tail(i, n)

generate_data_class_methods(attrs) ==
    LET n == Len(attrs)
    IN  join_newline([j \in 1..(2*n) |->
            IF j % 2 = 1
            THEN class_setter(attrs[(j+1) \div 2][1], attrs[(j+1) \div 2][2])
            ELSE class_getter(attrs[j \div 2][1], attrs[j \div 2][2], j \div 2, n)])

\* TEMPLATE_DATA_INTERFACE.format(**ctx)
TEMPLATE_DATA_INTERFACE(ctx) ==
    <<Lit("<?php"), NL,
      Lit("declare(strict_types=1);"), NL,
      NL,
      Frag("namespace {vendor}\\{module}\\Api\\Data;", "", ctx.vendor, ctx.module), NL,
      NL,
      Lit("/**"), NL,
      Frag(" * {entity} data interface", "", ctx.entity, <<>>), NL,
      Lit(" *"), NL,
      Lit(" * @api"), NL,
      Lit(" */"), NL,
      Frag("interface {entity}Interface", "", ctx.entity, <<>>), NL,
      Lit("{"), NL>>
    \o ctx.interface_constants \o <<NL, NL>>
    \o ctx.interface_methods \o <<NL, Lit("}"), NL>>

\* TEMPLATE_DATA_CLASS.format(**ctx)
TEMPLATE_DATA_CLASS(ctx) ==
    <<Lit("<?php"), NL,
      Lit("declare(strict_types=1);"), NL,
      NL,
      Frag("namespace {vendor}\\{module}\\Model\\Data;", "", ctx.vendor, ctx.module), NL,
      NL,
      Lit("use Magento\\Framework\\Model\\AbstractExtensibleModel;"), NL,
      Frag3("use {vendor}\\{module}\\Api\\Data\\{entity}Interface;", "",
            ctx.vendor, ctx.module, ctx.entity), NL,
      NL,
      Lit("/**"), NL,
      Frag(" * {entity} data model", "", ctx.entity, <<>>), NL,
      Lit(" *"), NL,
      Lit(" * @api"), NL,
      Lit(" */"), NL,
      Frag("class {entity} extends AbstractExtensibleModel implements {entity}Interface", "",
           ctx.entity, <<>>), NL,
      Lit("{"), NL>>
    \o ctx.data_methods \o <<NL, Lit("}"), NL>>

-----------------------------------------------------------------------------
(* File system *)

\* base_path / "Api/Data" and base_path / "Model/Data"
Dirs == {"Api/Data", "Model/Data"}

\* the content of a file that does not exist
Absent == <<Lit("<absent>")>>

\* content that no run of the generator wrote
Other == <<Lit("<other content>"), NL>>

interface_path(ent) == [dir |-> "Api/Data", name |-> ent \o <<"Interface.php">>]

data_path(ent) == [dir |-> "Model/Data", name |-> ent \o <<".php">>]

\* fs.files[d] is the content of the run's target file in directory d;
\* fs.blocked holds the directories that mkdir(parents=True) cannot create
\* (a regular file at a path component, a read-only parent).
write_raises(f, path) == path.dir \in f.blocked

\* mutant: the file is opened with "a"
write_file_append(f, path, content) ==
    [f EXCEPT !.dirs = @ \cup {path.dir},
              !.files[path.dir] = IF @ = Absent THEN content ELSE @ \o content]

\* mkdir(parents=True, exist_ok=True); open(path, "w"); f.write(content)
write_file(f, path, content) ==
    [f EXCEPT !.dirs = @ \cup {path.dir}, !.files[path.dir] = content]

InitialFs ==
    {f \in [dirs : SUBSET Dirs, blocked : SUBSET Dirs, files : [Dirs -> {Absent, Other}]] :
        /\ f.dirs \cap f.blocked = {}
        /\ \A d \in Dirs : f.files[d] # Absent => d \in f.dirs
        /\ \A d \in Dirs : d \in f.dirs => f.files[d] # Absent
        /\ (f.files["Api/Data"] = Other) = (f.files["Model/Data"] = Other)}

-----------------------------------------------------------------------------
(* Inputs *)

Vendors == {<<"B","s","s">>}

Modules == {<<"D","e","m","o">>}

\* --entity: omitted (None), given
EntityArgs == {None, <<"I","t","e","m">>}

TableNames == {<<"b","s","s","_","c","u","s","t","o","m","_","e","n","t","i","t","y">>, <<"w","i","d","g","e","t">>}

Column(n, t) == [name |-> n, type |-> t]

\* the <column> lists of a <table>: mixed-case type tags, a repeated column
\* name with an unknown tag, a column without xsi:type, a column whose name
\* attribute is empty, no column
ColumnLists ==
    { <<Column(<<"i","d">>, <<"I","N","T">>), Column(<<"f","i","r","s","t","_","n","a","m","e">>, <<"v","a","r","c","h","a","r">>)>>,
      <<Column(<<"S","k","u","_","I","D">>, <<"b","l","o","b">>), Column(<<"S","k","u","_","I","D">>, <<"D","a","t","e">>)>>,
      <<Column(<<"c","r","e","a","t","e","d","_","a","t">>, None)>>,
      <<Column(<<>>, <<"t","e","x","t">>)>>,
      <<>> }

Tables == {[table |-> n, columns |-> c] : n \in TableNames, c \in ColumnLists}

Schemas == UNION {[1..k -> Tables] : k \in 0..MaxTables}

DigitString(n) == <<AsciiDigits[n + 1]>>

\* answers to the prompt: 0 .. MaxTables+1, padded, non-numeric, empty, a
\* digit that is not ASCII
Answers ==
    {DigitString(n) : n \in 0..(MaxTables + 1)}
    \cup {<<" ","2"," ">>, <<"x">>, <<>>, <<"sup2">>}

-----------------------------------------------------------------------------
(* main *)

NoCtx ==
    [vendor |-> <<>>, module |-> <<>>, entity |-> <<>>,
     interface_constants |-> <<>>, interface_methods |-> <<>>, data_methods |-> <<>>]

Log(event) == trace' = Append(trace, event)

\* sys.exit(1) after a printed diagnostic
Exit1(kind) == pc' = "exit" /\ exitCode' = 1 /\ error' = kind

\* an exception nobody catches: traceback, exit status 1
Crash(exception) == pc' = "crashed" /\ exitCode' = 1 /\ error' = exception

\* index.isdigit() holds and int(index) raises ValueError
selection_raises(answered) == str_isdigit(answered) /\ int_raises(answered)

\* mutant: the lower end of the range test is 0
selection_invalid_from_zero(answered, n) ==
    \/ ~str_isdigit(answered)
    \/ ~(0 <= int_of(answered) /\ int_of(answered) <= n)

\* not index.isdigit() or not (1 <= int(index) <= len(tables))
selection_invalid(answered, n) ==
    \/ ~str_isdigit(answered)
    \/ ~(1 <= int_of(answered) /\ int_of(answered) <= n)

\* mutant: the answer is used as the index without the shift to 0-based
selected_index_unshifted(answered) == int_of(answered)

\* index = int(index) - 1
selected_index(answered) == int_of(answered) - 1

\* tables[index]: a negative index counts from the end
list_index_raises(list, i) == i >= Len(list) \/ i < -Len(list)

list_getitem(list, i) == IF i >= 0 THEN list[i + 1] ELSE list[Len(list) + i + 1]

RECURSIVE unique_columns(_, _)
unique_columns(columns, seen) ==
    IF columns = <<>> THEN <<>>
    ELSE IF Head(columns).name \in seen THEN unique_columns(Tail(columns), seen)
    ELSE <<Head(columns)>> \o unique_columns(Tail(columns), seen \cup {Head(columns).name})

\* mutant: a column name is taken once (attributes collected by name)
derive_attributes_deduplicated(columns) ==
    LET kept == unique_columns(columns, {})
    IN  [i \in 1..Len(kept) |-> <<kept[i].name, map_db_type_to_php_type(kept[i].type)>>]

\* [(col["name"], map_db_type_to_php_type(col["type"])) for col in table["columns"]]
derive_attributes(columns) ==
    [i \in 1..Len(columns) |->
        <<columns[i].name, map_db_type_to_php_type(columns[i].type)>>]

\* not args.entity
entity_omitted(arg) == arg = None \/ arg = <<>>

Init ==
    /\ pc = "start"
    /\ argv \in [vendor : Vendors, module : Modules, entity : EntityArgs,
                 db_schema_exists : BOOLEAN]
    /\ tables = <<>>
    /\ answer = None
    /\ index = 0
    /\ entity = None
    /\ attributes = <<>>
    /\ rendered = NoCtx
    /\ fs \in InitialFs
    /\ fs0 = fs
    /\ trace = <<>>
    /\ exitCode = -1
    /\ error = "none"
    /\ runs = 0
    /\ firstOut = [d \in Dirs |-> Absent]
    /\ uarg = None
    /\ ufn = "none"
    /\ ures = <<>>

\* if not os.path.exists(db_schema_path): print; sys.exit(1)
CheckPath ==
    /\ pc = "start"
    /\ Log("os.path.exists")
    /\ IF ~argv.db_schema_exists
       THEN Exit1("SchemaNotFound")
       ELSE pc' = "parse" /\ UNCHANGED <<exitCode, error>>
    /\ UNCHANGED <<argv, tables, answer, index, entity, attributes, rendered,
                   fs, fs0, runs, firstOut>>
    /\ UNCHANGED unitVars

\* tables = parse_magento_schema(db_schema_path); if not tables: print; sys.exit(1)
ParseSchema ==
    /\ pc = "parse"
    /\ Log("ET.parse")
    /\ \/ /\ Crash("ParseError")
          /\ UNCHANGED tables
       \/ \E schema \in Schemas :
            /\ tables' = schema
            /\ IF schema = <<>>
               THEN Exit1("EmptySchema")
               ELSE pc' = "select" /\ UNCHANGED <<exitCode, error>>
    /\ UNCHANGED <<argv, answer, index, entity, attributes, rendered,
                   fs, fs0, runs, firstOut>>
    /\ UNCHANGED unitVars

\* the table list is printed; with more than one table the prompt is issued
\* and its answer validated
SelectTable ==
    /\ pc = "select"
    /\ IF Len(tables) > 1
       THEN \E typed \in Answers :
              LET answered == str_strip(typed) IN
              /\ answer' = answered
              /\ trace' = trace \o <<"print:Available tables", "input">>
              /\ IF selection_raises(answered)
                 THEN Crash("ValueError") /\ UNCHANGED index
                 ELSE IF selection_invalid(answered, Len(tables))
                 THEN Exit1("InvalidSelection") /\ UNCHANGED index
                 ELSE /\ index' = selected_index(answered)
                      /\ pc' = "derive"
                      /\ UNCHANGED <<exitCode, error>>
       ELSE /\ Log("print:Available tables")
            /\ index' = 0
            /\ pc' = "derive"
            /\ UNCHANGED <<answer, exitCode, error>>
    /\ UNCHANGED <<argv, tables, entity, attributes, rendered,
                   fs, fs0, runs, firstOut>>
    /\ UNCHANGED unitVars

\* table = tables[index]; entity; attributes
Derive ==
    /\ pc = "derive"
    /\ IF list_index_raises(tables, index)
       THEN Crash("IndexError") /\ UNCHANGED <<entity, attributes>>
       ELSE LET table == list_getitem(tables, index)
                attrs == derive_attributes(table.columns)
            IN  IF entity_omitted(argv.entity) /\ table.table = None
                THEN Crash("AttributeError") /\ UNCHANGED <<entity, attributes>>
                ELSE /\ entity' = IF entity_omitted(argv.entity)
                                  THEN convert_table_to_entity(table.table)
                                  ELSE argv.entity
                     /\ IF \E i \in 1..Len(attrs) : attrs[i][2] = "<AttributeError>"
                        THEN Crash("AttributeError") /\ UNCHANGED attributes
                        ELSE /\ attributes' = attrs
                             /\ pc' = "generate"
                             /\ UNCHANGED <<exitCode, error>>
    /\ UNCHANGED <<argv, tables, answer, index, rendered, fs, fs0, trace,
                   runs, firstOut>>
    /\ UNCHANGED unitVars

\* generate_data_object up to ctx: the three generate_* calls
Generate ==
    /\ pc = "generate"
    /\ Log("render")
    /\ IF render_raises(attributes)
       THEN Crash("IndexError") /\ UNCHANGED rendered
       ELSE /\ rendered' =
                 [vendor |-> argv.vendor, module |-> argv.module, entity |-> entity,
                  interface_constants |-> generate_interface_constants(attributes),
                  interface_methods |-> generate_interface_methods(attributes),
                  data_methods |-> generate_data_class_methods(attributes)]
            /\ pc' = "write_interface"
            /\ UNCHANGED <<exitCode, error>>
    /\ UNCHANGED <<argv, tables, answer, index, entity, attributes,
                   fs, fs0, runs, firstOut>>
    /\ UNCHANGED unitVars

\* write_file(interface_path, TEMPLATE_DATA_INTERFACE.format(**ctx))
WriteInterface ==
    /\ pc = "write_interface"
    /\ IF write_raises(fs, interface_path(entity))
       THEN Crash("OSError") /\ UNCHANGED <<fs, trace>>
       ELSE /\ fs' = write_file(fs, interface_path(entity), TEMPLATE_DATA_INTERFACE(rendered))
            /\ Log("write:Api/Data")
            /\ pc' = "write_class"
            /\ UNCHANGED <<exitCode, error>>
    /\ UNCHANGED <<argv, tables, answer, index, entity, attributes, rendered,
                   fs0, runs, firstOut>>
    /\ UNCHANGED unitVars

\* write_file(data_path, TEMPLATE_DATA_CLASS.format(**ctx)); main returns
WriteClass ==
    /\ pc = "write_class"
    /\ IF write_raises(fs, data_path(entity))
       THEN Crash("OSError") /\ UNCHANGED <<fs, trace, runs, firstOut>>
       ELSE /\ fs' = write_file(fs, data_path(entity), TEMPLATE_DATA_CLASS(rendered))
            /\ Log("write:Model/Data")
            /\ runs' = runs + 1
            /\ firstOut' = IF runs = 0 THEN fs'.files ELSE firstOut
            /\ pc' = "done"
            /\ exitCode' = 0
            /\ UNCHANGED error
    /\ UNCHANGED <<argv, tables, answer, index, entity, attributes, rendered, fs0>>
    /\ UNCHANGED unitVars

\* generate_data_object is called again with the same vendor, module, entity
\* and attributes; in between, the two target files were left as written,
\* edited, or removed
Regenerate ==
    /\ pc = "done"
    /\ runs < MaxRuns
    /\ \E between \in {"kept", "edited", "removed"} :
          fs' = [fs EXCEPT !.files =
                    CASE between = "kept" -> @
                      [] between = "edited" -> [d \in Dirs |-> Other]
                      [] between = "removed" -> [d \in Dirs |-> Absent]]
    /\ fs0' = fs'
    /\ Log("again")
    /\ pc' = "generate"
    /\ exitCode' = -1
    /\ UNCHANGED <<argv, tables, answer, index, entity, attributes, rendered,
                   error, runs, firstOut>>
    /\ UNCHANGED unitVars

Next ==
    \/ CheckPath
    \/ ParseSchema
    \/ SelectTable
    \/ Derive
    \/ Generate
    \/ WriteInterface
    \/ WriteClass
    \/ Regenerate

Spec == Init /\ [][Next]_vars

-----------------------------------------------------------------------------
(* The pure helpers, each called on its own *)

NameAlphabet == {"a", "B", "_"}

ExampleNames ==
    {<<"b","s","s","_","c","u","s","t","o","m","_","e","n","t","i","t","y">>,
     <<"w","i","d","g","e","t">>,
     <<"a","_","b","_","c">>,
     <<"f","i","r","s","t","_","n","a","m","e">>,
     <<"i","d">>}

Names == UNION {[1..k -> NameAlphabet] : k \in 0..MaxNameLen} \cup ExampleNames

TypeTags ==
    { <<"i","n","t">>,
      <<"I","N","T">>,
      <<"I","n","t">>,
      <<"s","m","a","l","l","i","n","t">>,
      <<"S","M","A","L","L","I","N","T">>,
      <<"S","m","a","l","l","i","n","t">>,
      <<"b","i","g","i","n","t">>,
      <<"B","I","G","I","N","T">>,
      <<"B","i","g","i","n","t">>,
      <<"d","e","c","i","m","a","l">>,
      <<"D","E","C","I","M","A","L">>,
      <<"D","e","c","i","m","a","l">>,
      <<"f","l","o","a","t">>,
      <<"F","L","O","A","T">>,
      <<"F","l","o","a","t">>,
      <<"d","o","u","b","l","e">>,
      <<"D","O","U","B","L","E">>,
      <<"D","o","u","b","l","e">>,
      <<"b","o","o","l","e","a","n">>,
      <<"B","O","O","L","E","A","N">>,
      <<"B","o","o","l","e","a","n">>,
      <<"v","a","r","c","h","a","r">>,
      <<"V","A","R","C","H","A","R">>,
      <<"V","a","r","c","h","a","r">>,
      <<"t","e","x","t">>,
      <<"T","E","X","T">>,
      <<"T","e","x","t">>,
      <<"t","i","m","e","s","t","a","m","p">>,
      <<"T","I","M","E","S","T","A","M","P">>,
      <<"T","i","m","e","s","t","a","m","p">>,
      <<"d","a","t","e","t","i","m","e">>,
      <<"D","A","T","E","T","I","M","E">>,
      <<"D","a","t","e","t","i","m","e">>,
      <<"d","a","t","e">>,
      <<"D","A","T","E">>,
      <<"D","a","t","e">>,
      <<"b","l","o","b">> }

Raised(exception) == <<exception>>

InitUnit ==
    /\ pc = "unit"
    /\ argv = [vendor |-> <<>>, module |-> <<>>, entity |-> None, db_schema_exists |-> FALSE]
    /\ tables = <<>>
    /\ answer = None
    /\ index = 0
    /\ entity = None
    /\ attributes = <<>>
    /\ rendered = NoCtx
    /\ fs = [dirs |-> {}, blocked |-> {}, files |-> [d \in Dirs |-> Absent]]
    /\ fs0 = fs
    /\ trace = <<>>
    /\ exitCode = -1
    /\ error = "none"
    /\ runs = 0
    /\ firstOut = [d \in Dirs |-> Absent]
    /\ uarg \in Names \cup TypeTags \cup {None}
    /\ ufn = "none"
    /\ ures = <<>>

\* a str method called on None raises AttributeError; f"_{None}" is "_None"
Call_snake_to_camel ==
    /\ ufn = "none"
    /\ ufn' = "snake_to_camel"
    /\ ures' = IF uarg = None THEN Raised("<AttributeError>") ELSE snake_to_camel(uarg)
    /\ UNCHANGED uarg
    /\ UNCHANGED mainVars

Call_create_set_method_name ==
    /\ ufn = "none"
    /\ ufn' = "create_set_method_name"
    /\ ures' = IF uarg = None THEN Raised("<AttributeError>") ELSE create_set_method_name(uarg)
    /\ UNCHANGED uarg
    /\ UNCHANGED mainVars

Call_create_get_method_name ==
    /\ ufn = "none"
    /\ ufn' = "create_get_method_name"
    /\ ures' = IF uarg = None THEN Raised("<AttributeError>") ELSE create_get_method_name(uarg)
    /\ UNCHANGED uarg
    /\ UNCHANGED mainVars

Call_create_property_name ==
    /\ ufn = "none"
    /\ ufn' = "create_property_name"
    /\ ures' = IF uarg = None THEN <<"_", "N", "o", "n", "e">> ELSE create_property_name(uarg)
    /\ UNCHANGED uarg
    /\ UNCHANGED mainVars

Call_convert_table_to_entity ==
    /\ ufn = "none"
    /\ ufn' = "convert_table_to_entity"
    /\ ures' = IF uarg = None THEN Raised("<AttributeError>") ELSE convert_table_to_entity(uarg)
    /\ UNCHANGED uarg
    /\ UNCHANGED mainVars

Call_map_db_type_to_php_type ==
    /\ ufn = "none"
    /\ ufn' = "map_db_type_to_php_type"
    /\ ures' = map_db_type_to_php_type(uarg)
    /\ UNCHANGED uarg
    /\ UNCHANGED mainVars

NextUnit ==
    \/ Call_snake_to_camel
    \/ Call_create_set_method_name
    \/ Call_create_get_method_name
    \/ Call_create_property_name
    \/ Call_convert_table_to_entity
    \/ Call_map_db_type_to_php_type

SpecUnit == InitUnit /\ [][NextUnit]_vars

-----------------------------------------------------------------------------
(* Reading the state *)

InTrace(event) == \E i \in 1..Len(trace) : trace[i] = event

Count(event) == Cardinality({i \in 1..Len(trace) : trace[i] = event})

NoFileSystemEffect ==
    /\ fs = fs0
    /\ ~InTrace("write:Api/Data")
    /\ ~InTrace("write:Model/Data")

Ended == pc \in {"done", "exit", "crashed"}

TableChosen == pc \in {"derive", "generate", "write_interface", "write_class", "done"}

Derived == pc \in {"generate", "write_interface", "write_class", "done"}

InterfaceFile == fs.files["Api/Data"]

ClassFile == fs.files["Model/Data"]

\* the fragments of a text whose literal is k, in order
Fragments(text, k) == SelectSeq(text, LAMBDA f : f.k = k)

ColumnNames(table) == [i \in 1..Len(table.columns) |-> table.columns[i].name]

-----------------------------------------------------------------------------
(* C1 *)

\* an answer that is not the decimal numeral of a number in 1..n
OutsideSelection(answered, n) == ~\E k \in 1..n : answered = DigitString(k)

\* C1: a run that ends in SchemaNotFound, EmptySchema or InvalidSelection
\* exits with status 1 and has created or modified no directory and no file;
\* a missing path, a schema without tables and an answer outside 1..N all
\* end the run before any write; for a missing path no parse is attempted.
C1_ErrorRunsWriteNothing ==
    /\ pc = "exit" =>
          /\ exitCode = 1
          /\ error \in {"SchemaNotFound", "EmptySchema", "InvalidSelection"}
          /\ NoFileSystemEffect
    /\ (pc # "start" /\ ~argv.db_schema_exists) =>
          /\ pc = "exit" /\ error = "SchemaNotFound"
          /\ ~InTrace("ET.parse") /\ tables = <<>>
    /\ (InTrace("ET.parse") /\ error # "ParseError" /\ tables = <<>>) =>
          pc = "exit" /\ error = "EmptySchema"
    /\ (answer # None /\ OutsideSelection(answer, Len(tables))) =>
          /\ NoFileSystemEffect
          /\ pc \in {"exit", "crashed"}
          /\ pc = "exit" => error = "InvalidSelection"

C1_Witness ==
    /\ pc = "exit" /\ error = "InvalidSelection" /\ exitCode = 1
    /\ Len(tables) = 2 /\ answer = <<"0">>
    /\ fs0.files["Api/Data"] = Other

-----------------------------------------------------------------------------
(* C2 *)

\* C2: in every end state of a run either both files have been written or
\* neither has.
C2_BothOrNeither ==
    Ended => (InTrace("write:Api/Data") <=> InTrace("write:Model/Data"))

-----------------------------------------------------------------------------
(* C3 *)

\* the 1-based number the user chose, read off the answer
Chosen == IF Len(tables) = 1 THEN 1
          ELSE CHOOSE k \in 1..Len(tables) : answer = DigitString(k)

\* C3: one table: no prompt and that table is taken; N > 1 tables: exactly
\* one prompt, issued before any rendering or writing, and for the answer k
\* the entity (when --entity is omitted) and the attributes come from the
\* k-th table in document order.
C3_TableSelection ==
    /\ Count("input") <= 1
    /\ \A i, j \in 1..Len(trace) :
          (trace[i] = "input" /\ trace[j] \in {"render", "write:Api/Data", "write:Model/Data"})
             => i < j
    /\ TableChosen =>
          /\ Count("input") = (IF Len(tables) > 1 THEN 1 ELSE 0)
          /\ Len(tables) > 1 => \E k \in 1..Len(tables) : answer = DigitString(k)
          /\ index = Chosen - 1
    /\ Derived =>
          /\ entity_omitted(argv.entity) =>
                entity = convert_table_to_entity(tables[Chosen].table)
          /\ [i \in 1..Len(attributes) |-> attributes[i][1]] = ColumnNames(tables[Chosen])
          /\ \A i \in 1..Len(attributes) :
                attributes[i][2] = map_db_type_to_php_type(tables[Chosen].columns[i].type)

C3_Witness ==
    /\ pc = "done"
    /\ Len(tables) = 2 /\ answer = <<"2">> /\ Count("input") = 1
    /\ argv.entity = None
    /\ tables[1].table = <<"b","s","s","_","c","u","s","t","o","m","_","e","n","t","i","t","y">> /\ tables[2].table = <<"w","i","d","g","e","t">>
    /\ tables[1].columns # tables[2].columns
    /\ entity = <<"W","i","d","g","e","t">>
    /\ Len(attributes) = 2

-----------------------------------------------------------------------------
(* C4 *)

\* the type the documentation gives for a raw type tag
DocumentedType(rawType) ==
    IF rawType = None THEN "string" ELSE mapping_get(str_lower(rawType))

\* C4: for every raw type the schema reader hands over, a missing xsi:type
\* included, the type mapper returns the documented type and does not fail.
C4_TypeMapperTotal ==
    /\ error # "AttributeError"
    /\ Derived =>
          \A i \in 1..Len(attributes) :
             attributes[i][2] = DocumentedType(tables[Chosen].columns[i].type)

-----------------------------------------------------------------------------
(* C5 *)

\* the segments of a table name that make the entity: the last two of
\* several, the only one otherwise
KeptSegments(table_name) ==
    LET parts == str_split(table_name)
    IN  IF Len(parts) > 1 THEN <<parts[Len(parts)-1], parts[Len(parts)]>> ELSE parts

FirstUpperRestUnchanged(word) ==
    [j \in 1..Len(word) |-> IF j = 1 THEN upper_char(word[j]) ELSE word[j]]

FirstUpperRestLower(word) ==
    [j \in 1..Len(word) |-> IF j = 1 THEN upper_char(word[j]) ELSE lower_char(word[j])]

ConvertCalled == ufn = "convert_table_to_entity" /\ uarg # None

\* C5 as stated: the entity is the kept segments, each with only its first
\* letter upper-cased and every other character left unchanged.
C5_RestUnchanged ==
    ConvertCalled =>
       ures = str_join([i \in 1..Len(KeptSegments(uarg)) |->
                           FirstUpperRestUnchanged(KeptSegments(uarg)[i])])

\* C5 amended: the entity is the kept segments (the last two of several, all
\* otherwise), each with its first character upper-cased and every other
\* character lower-cased; it holds no underscore.
C5_RestLowered ==
    ConvertCalled =>
       /\ ures = str_join([i \in 1..Len(KeptSegments(uarg)) |->
                              FirstUpperRestLower(KeptSegments(uarg)[i])])
       /\ \A j \in 1..Len(ures) : ures[j] # "_"
       /\ uarg = <<"b","s","s","_","c","u","s","t","o","m","_","e","n","t","i","t","y">> => ures = <<"C","u","s","t","o","m","E","n","t","i","t","y">>
       /\ uarg = <<"w","i","d","g","e","t">> => ures = <<"W","i","d","g","e","t">>
       /\ uarg = <<"a","_","b","_","c">> => ures = <<"B","C">>

C5_Witness ==
    ConvertCalled /\ uarg = <<"a", "_", "B", "B">> /\ ures = <<"A", "B", "b">>

-----------------------------------------------------------------------------
(* C6 *)

SetterSignature == "    public function set{method_suffix}({attr_type} ${camel_attr_name}): self;"

GetterSignature == "    public function get{method_suffix}(): {attr_type};"

ClassSetterSignature == "    public function set{method_suffix}({attr_type} ${camel_attr_name}): self"

ClassGetterSignature == "    public function get{method_suffix}(): {attr_type}"

ConstantLine == "    public const {constant_name} = '{attr_name}';"

SetDataLine == "        return $this->setData(self::{const}, ${camel_attr_name});"

GetDataLine == "        return $this->getData(self::{const});"

ParamLine == "     * @param {attr_type} ${camel_attr_name}"

SetterForLine == "     * Setter for {attr_name}"

GetterForLine == "     * Getter for {attr_name}"

WithoutUnderscores(name) == SelectSeq(name, LAMBDA c : c # "_")

\* the names derived from attribute name, as one pair of files shows them for
\* the i-th attribute: P the property form, S what follows set/get
NamesConsistent(name, P, S, C) ==
    /\ (\A j \in 1..Len(name) : name[j] # "_") => P = name
    /\ \A j \in 1..Len(P) : P[j] # "_"
    /\ str_lower(P) = str_lower(WithoutUnderscores(name))
    /\ \A j \in 2..Len(name) : name[j-1] = "_" /\ name[j] # "_" =>
          \E q \in 1..Len(P) : q = Len(WithoutUnderscores(SubSeq(name, 1, j)))
                               /\ P[q] = upper_char(name[j])
    /\ S # <<>> /\ S[1] = upper_char(P[1]) /\ Tail(S) = Tail(P)
    /\ Len(C) = Len(name)
    /\ \A j \in 1..Len(name) : C[j] = upper_char(name[j])
    /\ name = <<"f","i","r","s","t","_","n","a","m","e">> => P = <<"f","i","r","s","t","N","a","m","e">> /\ S = <<"F","i","r","s","t","N","a","m","e">> /\ C = <<"F","I","R","S","T","_","N","A","M","E">>
    /\ name = <<"i","d">> => P = <<"i","d">> /\ S = <<"I","d">> /\ C = <<"I","D">>

\* C6: for every attribute rendered, property form, accessor names and
\* constant are consistent with the attribute name and with each other, in
\* the interface and in the class, and the constant the interface declares
\* is the one the class's setData and getData calls reference.
C6_DerivedNamesConsistent ==
    pc = "done" =>
       \A i \in 1..Len(attributes) :
          LET name == attributes[i][1]
              P == Fragments(InterfaceFile, ParamLine)[i].a
              S == Fragments(InterfaceFile, SetterSignature)[i].a
              C == Fragments(InterfaceFile, ConstantLine)[i].a
          IN  /\ NamesConsistent(name, P, S, C)
              /\ Fragments(InterfaceFile, ConstantLine)[i].b = name
              /\ Fragments(InterfaceFile, SetterSignature)[i].b = P
              /\ Fragments(InterfaceFile, GetterSignature)[i].a = S
              /\ Fragments(ClassFile, ParamLine)[i].a = P
              /\ Fragments(ClassFile, ClassSetterSignature)[i].a = S
              /\ Fragments(ClassFile, ClassSetterSignature)[i].b = P
              /\ Fragments(ClassFile, ClassGetterSignature)[i].a = S
              /\ Fragments(ClassFile, SetDataLine)[i].a = C
              /\ Fragments(ClassFile, SetDataLine)[i].b = P
              /\ Fragments(ClassFile, GetDataLine)[i].a = C

C6_Witness ==
    /\ pc = "done"
    /\ Len(attributes) = 2
    /\ attributes[2][1] = <<"f","i","r","s","t","_","n","a","m","e">>
    /\ Fragments(ClassFile, SetDataLine)[2].a = <<"F","I","R","S","T","_","N","A","M","E">>
    /\ Fragments(InterfaceFile, SetterSignature)[2].a = <<"F","i","r","s","t","N","a","m","e">>

-----------------------------------------------------------------------------
(* C7 *)

FieldA(frags) == [i \in 1..Len(frags) |-> frags[i].a]

FieldB(frags) == [i \in 1..Len(frags) |-> frags[i].b]

FieldT(frags) == [i \in 1..Len(frags) |-> frags[i].t]

SelectedColumns == ColumnNames(list_getitem(tables, index))

Suffixes == [i \in 1..Len(SelectedColumns) |-> method_suffix(snake_to_camel(SelectedColumns[i]))]

\* C7: the attributes are the selected table's columns, one per column in
\* document order, duplicates kept, and the interface's constants, the
\* interface's setter/getter pairs and the class's setter/getter pairs each
\* hold exactly one entry per column in that order; interface and class
\* declare the same methods in the same order.
C7_ColumnOrderKept ==
    /\ Derived => [i \in 1..Len(attributes) |-> attributes[i][1]] = SelectedColumns
    /\ pc \in {"write_class", "done"} =>
          /\ FieldB(Fragments(InterfaceFile, ConstantLine)) = SelectedColumns
          /\ FieldA(Fragments(InterfaceFile, SetterForLine)) = SelectedColumns
          /\ FieldA(Fragments(InterfaceFile, GetterForLine)) = SelectedColumns
          /\ FieldA(Fragments(InterfaceFile, SetterSignature)) = Suffixes
          /\ FieldA(Fragments(InterfaceFile, GetterSignature)) = Suffixes
    /\ pc = "done" =>
          /\ FieldA(Fragments(ClassFile, SetterForLine)) = SelectedColumns
          /\ FieldA(Fragments(ClassFile, GetterForLine)) = SelectedColumns
          /\ FieldA(Fragments(ClassFile, ClassSetterSignature)) = Suffixes
          /\ FieldA(Fragments(ClassFile, ClassGetterSignature)) = Suffixes
          /\ FieldT(Fragments(ClassFile, ClassSetterSignature))
                = FieldT(Fragments(InterfaceFile, SetterSignature))
          /\ FieldT(Fragments(ClassFile, ClassGetterSignature))
                = FieldT(Fragments(InterfaceFile, GetterSignature))

C7_Witness ==
    /\ pc = "done"
    /\ SelectedColumns = <<<<"S","k","u","_","I","D">>, <<"S","k","u","_","I","D">>>>
    /\ Len(Fragments(ClassFile, ClassGetterSignature)) = 2
    /\ Len(Fragments(InterfaceFile, ConstantLine)) = 2

-----------------------------------------------------------------------------
(* C8 *)

\* A text holds each line's content as one fragment and each newline
\* character as NL: a blank line is an NL that directly follows an NL.
IsNewline(text, p) == p \in 1..Len(text) /\ text[p].k = "\n"

IsContent(text, p, k) == p \in 1..Len(text) /\ text[p].k = k

\* the fragments that end a method: a declaration of the interface, the
\* closing brace of a method body of the class
MethodEnds(text, kinds) == {p \in 1..Len(text) : text[p].k \in kinds}

\* every method end but the last is followed by exactly one blank line, then
\* the next method's comment, with no blank line inside that method; the
\* last is followed by the line of the closing brace
OneBlankLineBetween(text, kinds) ==
    LET ends == MethodEnds(text, kinds)
    IN  \A e \in ends :
           IF \E later \in ends : later > e
           THEN /\ IsNewline(text, e + 1)
                /\ IsNewline(text, e + 2)
                /\ IsContent(text, e + 3, "    /**")
                /\ LET next == CHOOSE n \in ends : n > e /\ \A m \in ends : m > e => n <= m
                   IN  \A q \in (e + 3)..(next - 1) :
                          ~(IsNewline(text, q) /\ IsNewline(text, q + 1))
           ELSE /\ IsNewline(text, e + 1)
                /\ IsContent(text, e + 2, "}")

\* C8: for n >= 1 attributes, consecutive methods are separated by exactly
\* one blank line and no blank line stands between the last method and the
\* closing brace, in the interface and in the class.
C8_OneBlankLine ==
    /\ (pc \in {"write_class", "done"} /\ Len(attributes) >= 1) =>
          /\ Cardinality(MethodEnds(InterfaceFile, {SetterSignature, GetterSignature}))
                = 2 * Len(attributes)
          /\ OneBlankLineBetween(InterfaceFile, {SetterSignature, GetterSignature})
    /\ (pc = "done" /\ Len(attributes) >= 1) =>
          /\ Cardinality(MethodEnds(ClassFile, {"    }"})) = 2 * Len(attributes)
          /\ OneBlankLineBetween(ClassFile, {"    }"})

C8_Witness ==
    /\ pc = "done"
    /\ Len(attributes) = 2
    /\ Cardinality(MethodEnds(ClassFile, {"    }"})) = 4
    /\ Cardinality(MethodEnds(InterfaceFile, {SetterSignature, GetterSignature})) = 4

-----------------------------------------------------------------------------
(* C9 *)

\* C9: whatever the two target files held before a call of
\* generate_data_object (nothing, an earlier output, other content), after
\* the call both hold the rendering of (vendor, module, entity, attributes)
\* and nothing else, and every later call with that context leaves the same
\* content as the first.
C9_RegenerationOverwrites ==
    pc = "done" =>
       /\ fs.files = firstOut
       /\ InterfaceFile = TEMPLATE_DATA_INTERFACE(rendered)
       /\ ClassFile = TEMPLATE_DATA_CLASS(rendered)
       /\ rendered.vendor = argv.vendor /\ rendered.module = argv.module
       /\ rendered.entity = entity
       /\ FieldB(Fragments(rendered.interface_constants, ConstantLine))
             = [i \in 1..Len(attributes) |-> attributes[i][1]]

C9_Witness ==
    /\ pc = "done"
    /\ runs = 2
    /\ InTrace("again")
    /\ fs0.files["Api/Data"] = Other /\ fs0.files["Model/Data"] = Other
    /\ Len(attributes) = 2
    /\ InterfaceFile # Other /\ ClassFile # Other

-----------------------------------------------------------------------------
(* C10 *)

CanRender(attr_name) == ~render_raises(<<<<attr_name, "string">>>>)

EmittedSetter(text, signature) == <<"s","e","t">> \o Fragments(text, signature)[1].a

EmittedGetter(text, signature) == <<"g","e","t">> \o Fragments(text, signature)[1].a

\* C10: create_set_method_name and create_get_method_name return the setter
\* and getter names that generate_interface_methods and
\* generate_data_class_methods emit for the attribute.
C10_HelpersAgreeWithRenderers ==
    LET attrs == <<<<uarg, "string">>>> IN
    /\ (ufn = "create_set_method_name" /\ uarg # None /\ CanRender(uarg)) =>
          /\ ures = EmittedSetter(generate_interface_methods(attrs), SetterSignature)
          /\ ures = EmittedSetter(generate_data_class_methods(attrs), ClassSetterSignature)
    /\ (ufn = "create_get_method_name" /\ uarg # None /\ CanRender(uarg)) =>
          /\ ures = EmittedGetter(generate_interface_methods(attrs), GetterSignature)
          /\ ures = EmittedGetter(generate_data_class_methods(attrs), ClassGetterSignature)

====
